---- MODULE Spec2Model ----
(***************************************************************************)
(* The draw / round-progression engine of the lucky-draw widget            *)
(* (src/src/App.jsx, component App).                                       *)
(*                                                                         *)
(* State: the React state of App (range, steps, availableNumbers, history, *)
(* currentNumber, isSpinning, showConfig, currentStepIndex,                *)
(* isTransitioning), its two refs (timerRef, intervalRef) and the          *)
(* browser's pending timeouts and intervals.  A timer callback created in  *)
(* a render keeps the state values of that render (its closure); the       *)
(* closure is stored with the pending timer.                               *)
(*                                                                         *)
(* Left out: winner and expandedSteps (presentation only), the sounds and  *)
(* the confetti, the timestamp of a history record, edits of a round's     *)
(* name and edits of the range's max field.  Under Spec the range keeps    *)
(* its default; SpecRange adds edits of the range's min field.             *)
(* Time advances in units of 1000 ms.                                      *)
(***************************************************************************)
EXTENDS Integers, Sequences, FiniteSets, TLC

\* ---------------------------------------------------------------- bounds
\* The range is [1, MaxNum]: the default range [1, 100], scaled.
MaxNum == 2
\* Largest quantity that can be typed into a round's Qty field.
MaxCount == 2
\* Largest number of rounds of a plan.
MaxRounds == 2
\* Largest round id addStep hands out.
MaxStepId == MaxRounds

\* ------------------------------------------------- program constants
\* setTimeout(() => stopSpin(), 3000), in units of 1000 ms.
SpinDuration == 3
\* setTimeout(..., 2000) of the round transition, in units of 1000 ms.
TransitionDelay == 2

VARIABLES
  range,             \* [min, max]: the text of the two range fields
  steps,             \* the round plan: sequence of [id, name, count]
  availableNumbers,  \* the pool (an ascending array of distinct numbers: a set)
  history,           \* newest first: sequence of [number, stepId, stepName]
  currentNumber,     \* the displayed value
  isSpinning,
  showConfig,
  currentStepIndex,  \* 0-based
  isTransitioning,
  timerRef,          \* handle of the last spin timeout, 0 when none is live
  intervalRef,       \* handle of the last tick interval, 0 when none is live
  timeouts,          \* pending setTimeout callbacks
  intervals,         \* active setInterval callbacks
  mounted,           \* FALSE once the component is torn down
  notice             \* the alert shown by the last handler, "none" if none

vars == <<range, steps, availableNumbers, history, currentNumber, isSpinning,
          showConfig, currentStepIndex, isTransitioning, timerRef, intervalRef,
          timeouts, intervals, mounted, notice>>

config == <<range, steps>>
game == <<availableNumbers, history, currentNumber, isSpinning, showConfig,
          currentStepIndex, isTransitioning>>
timers == <<timerRef, intervalRef, timeouts, intervals>>

\* ------------------------------------------------------ JavaScript values
\* The text of an <input type="number">: empty, or a number.
Blank == [blank |-> TRUE, n |-> 0]
Typed(n) == [blank |-> FALSE, n |-> n]

\* A JavaScript number: NaN or an integer.
NaN == [nan |-> TRUE, n |-> 0]
Num(n) == [nan |-> FALSE, n |-> n]

\* parseInt of a field's text: NaN for the empty text.
parseInt(v) == IF v.blank THEN NaN ELSE Num(v.n)

\* a + b, a - b, a > b, a >= b, a <= b on JavaScript numbers: NaN propagates
\* through arithmetic and makes every comparison false.
JsAdd(a, b) == IF a.nan \/ b.nan THEN NaN ELSE Num(a.n + b.n)
JsSub(a, b) == IF a.nan \/ b.nan THEN NaN ELSE Num(a.n - b.n)
JsGt(a, b) == ~a.nan /\ ~b.nan /\ a.n > b.n
JsGe(a, b) == ~a.nan /\ ~b.nan /\ a.n >= b.n
JsLe(a, b) == ~a.nan /\ ~b.nan /\ a.n <= b.n

\* The displayed value: null, the "?" placeholder, or a number.
Null == [tag |-> "null", n |-> 0]
\* Mutant of Placeholder: initializeNumbers sets the displayed value to null.
PlaceholderNull == [tag |-> "null", n |-> 0]
Placeholder == [tag |-> "?", n |-> 0]
Shown(n) == [tag |-> "num", n |-> n]

\* ------------------------------------------------------------- helpers
\* steps.reduce((sum, step) => sum + parseInt(step.count), 0)
RECURSIVE SumCounts(_)
SumCounts(ss) ==
  IF ss = <<>> THEN Num(0)
  ELSE JsAdd(SumCounts(SubSeq(ss, 1, Len(ss) - 1)), parseInt(ss[Len(ss)].count))

\* Mutant of TotalAvailable: the range size counted one too large.
TotalAvailableOffByOne(r) ==
  JsAdd(JsSub(parseInt(r.max), parseInt(r.min)), Num(2))

\* const totalAvailable = max - min + 1
TotalAvailable(r) == JsAdd(JsSub(parseInt(r.max), parseInt(r.min)), Num(1))

\* Mutant of RangeNumbers: the loop stops one short of max.
RangeNumbersShort(r) ==
  IF JsLe(parseInt(r.min), parseInt(r.max))
  THEN parseInt(r.min).n .. (parseInt(r.max).n - 1)
  ELSE {}

\* for (let i = min; i <= max; i++) nums.push(i)
RangeNumbers(r) ==
  IF JsLe(parseInt(r.min), parseInt(r.max))
  THEN parseInt(r.min).n .. parseInt(r.max).n
  ELSE {}

\* if (totalWinnersNeeded > totalAvailable)
InsufficientPool(ss, r) == JsGt(SumCounts(ss), TotalAvailable(r))

\* Mutant of WithoutWinner: the winner stays in the pool.
WinnerKept(avail, w) == avail

\* availableNumbers.filter(n => n !== winningNumber)
WithoutWinner(avail, w) == avail \ {w}

\* Mutant of StepComplete: > in place of >=.
StepCompleteStrict(drawn, step) == JsGt(Num(drawn + 1), parseInt(step.count))

\* Mutant of Prepended: the record is pushed to the end of the array.
Appended(rec, h) == Append(h, rec)

\* setHistory(prev => [winRecord, ...prev])
Prepended(rec, h) == <<rec>> \o h

\* winnersInThisStep >= parseInt(currentStep.count), where winnersInThisStep
\* is the number of records of the step in the closure's history, plus 1
StepComplete(drawn, step) == JsGe(Num(drawn + 1), parseInt(step.count))

\* history.filter(h => h.stepId === id).length
WinnersIn(h, id) == Cardinality({i \in 1..Len(h) : h[i].stepId = id})

\* Math.max(...steps.map(s => s.id))
MaxId(ss) == CHOOSE m \in {ss[i].id : i \in 1..Len(ss)} :
               \A i \in 1..Len(ss) : ss[i].id <= m

\* The handles in use; a new timer gets the smallest handle not in use.
UsedHandles(ts, is) == {t.h : t \in ts} \cup {i.h : i \in is}
FreshHandle(ts, is) ==
  CHOOSE h \in 1..(Cardinality(UsedHandles(ts, is)) + 1) : h \notin UsedHandles(ts, is)

\* The values of the render in which handleSpin ran, as far as stopSpin and
\* its transition callback read them: availableNumbers, the current step
\* steps[currentStepIndex], the number of history records of that step,
\* currentStepIndex and steps.length.
Closure == [avail |-> availableNumbers,
            step |-> steps[currentStepIndex + 1],
            drawn |-> WinnersIn(history, steps[currentStepIndex + 1].id),
            idx |-> currentStepIndex,
            nsteps |-> Len(steps)]

\* ------------------------------------------------------------------ Init
\* useState(...) of App, with range.max = MaxNum.
Init ==
  /\ range = [min |-> Typed(1), max |-> Typed(MaxNum)]
  /\ steps = <<[id |-> 1, name |-> 1, count |-> Typed(1)]>>
  /\ availableNumbers = {}
  /\ history = <<>>
  /\ currentNumber = Null
  /\ isSpinning = FALSE
  /\ showConfig = TRUE
  /\ currentStepIndex = 0
  /\ isTransitioning = FALSE
  /\ timerRef = 0
  /\ intervalRef = 0
  /\ timeouts = {}
  /\ intervals = {}
  /\ mounted = TRUE
  /\ notice = "none"

\* ------------------------------------------------- configuration screen
\* What can be typed into a round's Qty field.
CountTexts == {Blank} \cup {Typed(n) : n \in 0..MaxCount}

addStep ==
  /\ mounted /\ showConfig
  /\ Len(steps) < MaxRounds
  /\ LET newId == IF Len(steps) > 0 THEN MaxId(steps) + 1 ELSE 1
     IN /\ newId <= MaxStepId
        /\ steps' = Append(steps, [id |-> newId, name |-> Len(steps) + 1,
                                   count |-> Typed(1)])
  /\ notice' = "none"
  /\ UNCHANGED <<range, game, timers, mounted>>

removeStep ==
  /\ mounted /\ showConfig
  /\ \E i \in 1..Len(steps) :
       /\ Len(steps) # 1
       /\ steps' = SelectSeq(steps, LAMBDA s : s.id # steps[i].id)
  /\ notice' = "none"
  /\ UNCHANGED <<range, game, timers, mounted>>

\* updateStep(id, 'count', value)
updateStep ==
  /\ mounted /\ showConfig
  /\ \E i \in 1..Len(steps), v \in CountTexts :
       steps' = [j \in 1..Len(steps) |->
                   IF steps[j].id = steps[i].id
                   THEN [steps[j] EXCEPT !.count = v] ELSE steps[j]]
  /\ notice' = "none"
  /\ UNCHANGED <<range, game, timers, mounted>>

\* The min field of the range: setRange({ ...range, min: e.target.value })
setRangeMin ==
  /\ mounted /\ showConfig
  /\ \E n \in 1..MaxNum : range' = [range EXCEPT !.min = Typed(n)]
  /\ notice' = "none"
  /\ UNCHANGED <<steps, game, timers, mounted>>

\* The Settings button of the play screen: setShowConfig(true)
openSettings ==
  /\ mounted /\ ~showConfig
  /\ showConfig' = TRUE
  /\ notice' = "none"
  /\ UNCHANGED <<config, availableNumbers, history, currentNumber, isSpinning,
                 currentStepIndex, isTransitioning, timers, mounted>>

\* ------------------------------------------------------ initializeNumbers
\* The handler behind "Initialize & Start" and behind "Reset Game".  It
\* clears no timer: a pending timer is only marked as one of an earlier game.
initializeNumbers ==
  IF InsufficientPool(steps, range)
  THEN /\ notice' = "InsufficientPool"
       /\ UNCHANGED <<config, game, timers, mounted>>
  ELSE /\ availableNumbers' = RangeNumbers(range)
       /\ history' = <<>>
       /\ currentNumber' = Placeholder
       /\ currentStepIndex' = 0
       /\ isTransitioning' = FALSE
       /\ showConfig' = FALSE
       /\ timeouts' = {[t EXCEPT !.old = TRUE] : t \in timeouts}
       /\ notice' = "none"
       /\ UNCHANGED <<config, isSpinning, timerRef, intervalRef, intervals, mounted>>

\* The React state the handlers of the play screen read and write.
EngineState ==
  [availableNumbers |-> availableNumbers, history |-> history,
   currentNumber |-> currentNumber, isSpinning |-> isSpinning,
   showConfig |-> showConfig, currentStepIndex |-> currentStepIndex,
   isTransitioning |-> isTransitioning]

\* initializeNumbers as a function: the state it leaves when it runs in state
\* s with plan ss and range r.
initializeNumbersOf(s, ss, r) ==
  IF InsufficientPool(ss, r)
  THEN s
  ELSE [s EXCEPT !.availableNumbers = RangeNumbers(r),
                 !.history = <<>>,
                 !.currentNumber = Placeholder,
                 !.currentStepIndex = 0,
                 !.isTransitioning = FALSE,
                 !.showConfig = FALSE]

\* "Initialize & Start" on the configuration screen.
Initialize == mounted /\ showConfig /\ initializeNumbers

\* "Reset Game" on the play screen, rendered when history.length > 0.
Reset == mounted /\ ~showConfig /\ Len(history) > 0 /\ initializeNumbers

\* ---------------------------------------------------------------- spin
\* Mutant of SpinButtonDisabled: the button stays enabled during a spin.
SpinButtonEnabledWhileSpinning ==
  \/ isTransitioning
  \/ availableNumbers = {}
  \/ currentStepIndex >= Len(steps)

\* disabled={isSpinning || isTransitioning || availableNumbers.length === 0
\*           || isGameFinished} of the spin button
SpinButtonDisabled ==
  \/ isSpinning
  \/ isTransitioning
  \/ availableNumbers = {}
  \/ currentStepIndex >= Len(steps)

\* The body of handleSpin after its early returns: the tick interval and the
\* spin timeout, both created in this render and so holding its values.
beginSpin ==
  LET ih == FreshHandle(timeouts, intervals)
      is == intervals \cup {[h |-> ih, avail |-> availableNumbers]}
      th == FreshHandle(timeouts, is)
  IN /\ isSpinning' = TRUE
     /\ intervals' = is
     /\ intervalRef' = ih
     /\ timeouts' = timeouts \cup
          {[h |-> th, kind |-> "spin", left |-> SpinDuration,
            c |-> Closure, old |-> FALSE]}
     /\ timerRef' = th
     /\ notice' = "none"
     /\ UNCHANGED <<config, availableNumbers, history, currentNumber,
                    showConfig, currentStepIndex, isTransitioning, mounted>>

\* handleSpin: its three early returns (two of them with an alert), then the
\* spin.
handleSpin ==
  IF availableNumbers = {}
  THEN notice' = "AllDrawn" /\ UNCHANGED <<config, game, timers, mounted>>
  ELSE IF currentStepIndex >= Len(steps)
  THEN notice' = "AllRounds" /\ UNCHANGED <<config, game, timers, mounted>>
  ELSE IF isTransitioning
  THEN UNCHANGED vars
  ELSE beginSpin

\* Mutant of StartSpin: neither the button nor the handler looks at
\* isTransitioning.
StartSpinWhileTransitioning ==
  /\ mounted /\ ~showConfig
  /\ IF isSpinning \/ availableNumbers = {} \/ currentStepIndex >= Len(steps)
     THEN UNCHANGED vars
     ELSE beginSpin

\* A press of the spin button of the play screen: nothing runs while the
\* button is disabled, otherwise handleSpin.
StartSpin ==
  /\ mounted /\ ~showConfig
  /\ IF SpinButtonDisabled THEN UNCHANGED vars ELSE handleSpin

\* The setInterval callback of handleSpin: shows a random member of the pool
\* of the render that started the spin.
IntervalTick ==
  /\ mounted
  /\ \E i \in intervals : \E n \in i.avail : currentNumber' = Shown(n)
  /\ notice' = "none"
  /\ UNCHANGED <<config, availableNumbers, history, isSpinning, showConfig,
                 currentStepIndex, isTransitioning, timers, mounted>>

\* stopSpin, run by spin timeout t with closure t.c, committing winner w.
\* State setters do nothing once the component is unmounted.
stopSpin(t, w) ==
  LET c == t.c
      currentStep == c.step
      winRecord == [number |-> w, stepId |-> currentStep.id,
                    stepName |-> currentStep.name]
      complete == StepComplete(c.drawn, currentStep)
      \* t has fired; clearInterval(intervalRef.current) and
      \* clearTimeout(timerRef.current).  The refs keep their handles, but
      \* clearing the handle of a timer that is gone does nothing, so they
      \* read as 0 from here on.
      is == {i \in intervals : i.h # intervalRef}
      ts == {x \in timeouts : x # t /\ x.h # timerRef}
  IN /\ w \in c.avail
     /\ intervals' = is
     /\ intervalRef' = 0
     /\ timerRef' = 0
     /\ IF mounted
        THEN /\ currentNumber' = Shown(w)
             /\ history' = Prepended(winRecord, history)
             /\ availableNumbers' = WithoutWinner(c.avail, w)
             /\ isSpinning' = FALSE
             /\ isTransitioning' = (complete \/ isTransitioning)
        ELSE UNCHANGED <<currentNumber, history, availableNumbers, isSpinning,
                         isTransitioning>>
     /\ timeouts' =
          IF complete
          THEN ts \cup {[h |-> FreshHandle(ts, is), kind |-> "trans",
                         left |-> TransitionDelay, c |-> c, old |-> FALSE]}
          ELSE ts
     /\ notice' = "none"
     /\ UNCHANGED <<config, showConfig, currentStepIndex, mounted>>

\* The spin timeout fires: CommitDraw.
CommitDraw ==
  \E t \in timeouts :
    /\ t.kind = "spin" /\ t.left = 0
    /\ \E w \in t.c.avail : stopSpin(t, w)

\* The callback of the setTimeout(..., 2000) of stopSpin, with closure c.
transitionCallback(c) ==
  IF mounted
  THEN /\ currentStepIndex' =
            IF c.idx < c.nsteps - 1 THEN c.idx + 1 ELSE currentStepIndex + 1
       /\ isTransitioning' = FALSE
  ELSE UNCHANGED <<currentStepIndex, isTransitioning>>

\* The round-transition timeout fires.
RoundTransition ==
  \E t \in timeouts :
    /\ t.kind = "trans" /\ t.left = 0
    /\ transitionCallback(t.c)
    /\ timeouts' = timeouts \ {t}
    /\ notice' = "none"
    /\ UNCHANGED <<config, availableNumbers, history, currentNumber, isSpinning,
                   showConfig, timerRef, intervalRef, intervals, mounted>>

\* 1000 ms pass: no pending timeout is due, and each comes 1000 ms closer.
AdvanceTime ==
  /\ timeouts # {}
  /\ \A t \in timeouts : t.left > 0
  /\ timeouts' = {[t EXCEPT !.left = t.left - 1] : t \in timeouts}
  /\ notice' = "none"
  /\ UNCHANGED <<config, game, timerRef, intervalRef, intervals, mounted>>

\* The cleanup of useEffect(() => ..., []): the component is torn down.
Unmount ==
  /\ mounted
  /\ mounted' = FALSE
  /\ intervals' = {i \in intervals : i.h # intervalRef}
  /\ timeouts' = {t \in timeouts : t.h # timerRef}
  /\ intervalRef' = 0
  /\ timerRef' = 0
  /\ notice' = "none"
  /\ UNCHANGED <<config, game>>

Next ==
  \/ addStep
  \/ removeStep
  \/ updateStep
  \/ openSettings
  \/ Initialize
  \/ Reset
  \/ StartSpin
  \/ IntervalTick
  \/ CommitDraw
  \/ RoundTransition
  \/ AdvanceTime
  \/ Unmount

Spec == Init /\ [][Next]_vars

\* One game: the plan is set up, Initialize succeeds once, and from then on
\* the user only presses the spin button, whenever it is enabled; the
\* component stays mounted and every timer that is due fires.
NextOneGame ==
  \/ addStep
  \/ removeStep
  \/ updateStep
  \/ Initialize
  \/ StartSpin
  \/ IntervalTick
  \/ CommitDraw
  \/ RoundTransition
  \/ AdvanceTime

\* Every behaviour of the component, edits of the range's min field included.
NextRange ==
  \/ Next
  \/ setRangeMin

SpecRange == Init /\ [][NextRange]_vars

\* Every behaviour of the component, with every timer that is due firing.
FairSpec ==
  /\ Spec
  /\ WF_vars(AdvanceTime)
  /\ WF_vars(CommitDraw)
  /\ WF_vars(RoundTransition)

OneGame ==
  /\ Init /\ [][NextOneGame]_vars
  /\ WF_vars(StartSpin)
  /\ WF_vars(AdvanceTime)
  /\ WF_vars(CommitDraw)
  /\ WF_vars(RoundTransition)

\* =================================================================== claims
\* The vocabulary of the claims.

\* The numbers min..max of the configured range, and how many they are.
PoolRange == range.min.n .. range.max.n
PoolSize == range.max.n - range.min.n + 1

\* Every round of the plan has a number as its required count.
PlanNumeric == \A i \in 1..Len(steps) : ~steps[i].count.blank

\* The sum of the required counts of a plan whose counts are numbers.
RECURSIVE TotalRequired(_)
TotalRequired(ss) ==
  IF ss = <<>> THEN 0 ELSE ss[1].count.n + TotalRequired(Tail(ss))

SpinTimeouts == {t \in timeouts : t.kind = "spin"}
TransitionTimeouts == {t \in timeouts : t.kind = "trans"}

\* A press of the spin button would start a spin.
SpinAccepted ==
  /\ mounted /\ ~showConfig
  /\ ~isSpinning /\ ~isTransitioning
  /\ availableNumbers # {}
  /\ currentStepIndex < Len(steps)

\* The parts of the engine state the claims speak of.
engine == <<availableNumbers, history, currentStepIndex, currentNumber,
            isSpinning, isTransitioning, showConfig>>

\* C1 (Uniqueness): in every reachable state the numbers of the records in
\* history are pairwise distinct.
C1_Uniqueness ==
  \A i, j \in 1..Len(history) :
    i # j => history[i].number # history[j].number

\* Two draws have been committed.
C1_Witness == Len(history) >= 2

\* C2 (Round capacity), as claimed: in every reachable state every round of
\* the plan has at most requiredCount records in history.  Stated here for
\* the play screen and for plans whose required counts are all positive
\* integers, where the code violates it already.
C2_RoundCapacity ==
  (/\ mounted /\ ~showConfig
   /\ \A i \in 1..Len(steps) : ~steps[i].count.blank /\ steps[i].count.n >= 1)
  => \A i \in 1..Len(steps) :
       WinnersIn(history, steps[i].id) <= steps[i].count.n

\* C3 (Conservation), as claimed: every commit (the step that adds a record to
\* history) leaves the pool equal to the pool before it minus the committed
\* winner, one number smaller.  Violated by the code.
C3_Conservation ==
  [][Len(history') = Len(history) + 1 =>
       /\ history'[1].number \in availableNumbers
       /\ availableNumbers' = availableNumbers \ {history'[1].number}
       /\ Cardinality(availableNumbers') = Cardinality(availableNumbers) - 1
    ]_vars

\* C4 (No stale timer), as claimed: when a commit or round-transition timeout
\* scheduled before the last Initialize/Reset fires, the pool, the history
\* and the round index stay as they are.  Violated by the code.
C4_NoStaleTimer ==
  [][(\E t \in timeouts : t.old /\ t.left = 0 /\ t \notin timeouts') =>
       UNCHANGED <<availableNumbers, history, currentStepIndex>>
    ]_vars

\* C5 (One spin at a time): in every reachable state at most one spin timeout
\* and at most one tick interval are pending, and while one is pending no
\* step schedules another.
C5_OneSpinAtATime ==
  /\ [](Cardinality(SpinTimeouts) <= 1 /\ Cardinality(intervals) <= 1)
  /\ [][(SpinTimeouts # {} \/ intervals # {}) =>
          /\ {t.h : t \in SpinTimeouts'} \subseteq {t.h : t \in SpinTimeouts}
          /\ intervals' \subseteq intervals
       ]_vars

\* A spin is under way on the play screen, where the spin button is.
C5_Witness ==
  /\ mounted /\ ~showConfig
  /\ \E t \in SpinTimeouts : t.left < SpinDuration
  /\ intervals # {}

\* C6 (Round index progression), as claimed: on the play screen a step that
\* is not an Initialize/Reset leaves the round index as it is or raises it by
\* exactly 1, and raises it only when history holds at least requiredCount
\* records of the round it leaves.  Violated by the code.
C6_RoundProgression ==
  [][(mounted /\ ~showConfig) =>
       \/ initializeNumbers
       \/ currentStepIndex' = currentStepIndex
       \/ /\ currentStepIndex' = currentStepIndex + 1
          /\ currentStepIndex < Len(steps)
          /\ ~steps[currentStepIndex + 1].count.blank
          /\ WinnersIn(history, steps[currentStepIndex + 1].id)
               >= steps[currentStepIndex + 1].count.n
    ]_vars

\* C7 (Reset), as claimed: right after a Reset the history is empty, the pool
\* is min..max, the round index is 0 and a press of the spin button is
\* accepted.  Violated by the code.
C7_ResetReady ==
  [][Reset =>
       /\ history' = <<>>
       /\ availableNumbers' = PoolRange
       /\ currentStepIndex' = 0
       /\ SpinAccepted'
    ]_vars

\* C8 (Initialize rejection): whenever the required counts sum to more than
\* max - min + 1, Initialize fails with InsufficientPool and leaves pool,
\* history, round index, displayed value and phase as they were; in
\* particular the configuration screen is not left.
C8_InitializeRejection ==
  [][(PlanNumeric /\ TotalRequired(steps) > PoolSize) =>
       /\ (Initialize \/ Reset) =>
            (notice' = "InsufficientPool" /\ UNCHANGED engine)
       /\ showConfig => showConfig'
    ]_vars

\* Initialize has been rejected while the records of an earlier game are
\* still there.
C8_Witness ==
  /\ notice = "InsufficientPool"
  /\ PlanNumeric /\ TotalRequired(steps) > PoolSize
  /\ Len(history) > 0

\* C9 (Initialize acceptance), as claimed: Initialize succeeds exactly when
\* the required counts sum to at most max - min + 1, and then the pool is
\* min..max, the history empty, the round index 0, the displayed value the
\* placeholder and the engine not transitioning.  Violated by the code.
C9_InitializeAcceptance ==
  [][(Initialize \/ Reset) =>
       /\ (notice' # "InsufficientPool") <=>
            (PlanNumeric /\ TotalRequired(steps) <= PoolSize)
       /\ (notice' # "InsufficientPool") =>
            /\ availableNumbers' = PoolRange
            /\ history' = <<>>
            /\ currentStepIndex' = 0
            /\ currentNumber' = Placeholder
            /\ ~isTransitioning'
    ]_vars

\* One of the three conditions under which a spin is to be rejected holds.
SpinRejected ==
  \/ isTransitioning
  \/ availableNumbers = {}
  \/ currentStepIndex >= Len(steps)

\* C10 (StartSpin rejection): while the engine is transitioning, or the pool
\* is empty, or no current round exists, a press of the spin button changes
\* neither the engine state nor the timers, and no step schedules a tick
\* interval or a spin timeout.
C10_StartSpinRejection ==
  [][SpinRejected =>
       /\ StartSpin => UNCHANGED <<engine, timers>>
       /\ {t.h : t \in SpinTimeouts'} \subseteq {t.h : t \in SpinTimeouts}
       /\ intervals' \subseteq intervals
    ]_vars

\* The game is finished with numbers left in the pool, on the play screen:
\* the spin button can be pressed and only the missing round rejects it.
C10_Witness ==
  /\ mounted /\ ~showConfig
  /\ ~isSpinning /\ ~isTransitioning
  /\ availableNumbers # {}
  /\ currentStepIndex >= Len(steps)

\* C11 (Idempotent reset): the state a Reset leaves is the state
\* initializeNumbers computes, a second Reset run in it would leave it as it
\* is, and it has an empty history, the full pool and round index 0.
C11_IdempotentReset ==
  [][Reset =>
       LET s1 == initializeNumbersOf(EngineState, steps, range)
       IN /\ EngineState' = s1
          /\ initializeNumbersOf(s1, steps', range') = s1
          /\ s1.history = <<>>
          /\ s1.availableNumbers = PoolRange
          /\ s1.currentStepIndex = 0
          /\ UNCHANGED <<config, timerRef, intervalRef, intervals>>
    ]_vars

\* The game has been reset in the middle of the second spin of a game: the
\* spin that is still pending started from a pool with one number drawn.
C11_Witness ==
  /\ mounted /\ ~showConfig
  /\ history = <<>> /\ availableNumbers = PoolRange /\ currentStepIndex = 0
  /\ currentNumber = Placeholder
  /\ isSpinning
  /\ \E t \in SpinTimeouts : t.old /\ t.c.avail # PoolRange

\* The round plan has only positive integers as required counts.
PlanPositive ==
  \A i \in 1..Len(steps) : ~steps[i].count.blank /\ steps[i].count.n >= 1

\* All rounds are done: currentStepIndex is steps.length (isGameFinished).
Finished == mounted /\ ~showConfig /\ currentStepIndex = Len(steps)

\* C12 (Final state of a game), as claimed: in a game that is not reset, once
\* the engine is Finished every round has exactly requiredCount records, the
\* history is as long as the required counts sum to, and the pool holds
\* max - min + 1 minus that sum numbers.  Violated by the code for a round
\* whose required count is 0.
C12_FinalState ==
  (Finished /\ PlanNumeric) =>
    /\ \A i \in 1..Len(steps) :
         WinnersIn(history, steps[i].id) = steps[i].count.n
    /\ Len(history) = TotalRequired(steps)
    /\ Cardinality(availableNumbers) = PoolSize - TotalRequired(steps)

\* The same for plans of positive required counts, which the code satisfies.
C12_FinalStatePositive == PlanPositive => C12_FinalState

C14_TeardownCancellation ==
  /\ [](~mounted => (timeouts = {} /\ intervals = {}))
  /\ [][~mounted => UNCHANGED vars]_vars

\* C15 (Plan read-only during play), as claimed: while the configuration
\* screen stays open no step appends to history or changes the round index.
\* Violated by the code.
C15_PlanReadOnly ==
  [][(showConfig /\ showConfig') =>
       UNCHANGED <<history, currentStepIndex>>
    ]_vars

\* A step appends a record to history.
Appends == history' # history /\ history' # <<>>

\* C16 (Record carries the round of the commit), as claimed: a record
\* appended on the play screen has the id and the name of the round at
\* currentStepIndex in the state in which the commit fires.  Violated by the
\* code.
C16_RecordRound ==
  [][(mounted /\ ~showConfig /\ Appends) =>
       /\ currentStepIndex < Len(steps)
       /\ history'[1].stepId = steps[currentStepIndex + 1].id
       /\ history'[1].stepName = steps[currentStepIndex + 1].name
    ]_vars

\* C17 (Index range), as claimed: 0 <= currentStepIndex <= steps.length in
\* every reachable state; stated here for the play screen, where the plan is
\* the one of the game.  Violated by the code.
C17_IndexRange ==
  (mounted /\ ~showConfig) =>
    (0 <= currentStepIndex /\ currentStepIndex <= Len(steps))

\* C18 (Immediate transition), as claimed, for plans of positive required
\* counts: a commit that brings the current round's records to its required
\* count leaves the engine transitioning, and whenever a press of the spin
\* button would be accepted the current round has fewer records than it
\* requires.  Violated by the code.
C18_ImmediateTransition ==
  /\ [][(/\ mounted /\ ~showConfig /\ PlanPositive /\ Appends
          /\ currentStepIndex < Len(steps)
          /\ WinnersIn(history', steps[currentStepIndex + 1].id)
               = steps[currentStepIndex + 1].count.n)
         => isTransitioning'
       ]_vars
  /\ []((SpinAccepted /\ PlanPositive) =>
          WinnersIn(history, steps[currentStepIndex + 1].id)
            < steps[currentStepIndex + 1].count.n)

\* The handles of the pending spin timeouts.
SpinHandles == {t.h : t \in SpinTimeouts}

\* C19 (One commit per accepted spin): a spin timeout is scheduled only by an
\* accepted press of the spin button; while the component is mounted it
\* leaves only by firing, in a step that appends exactly one record and
\* stops the tick interval; a record is appended only by such a step; and
\* every pending spin timeout eventually fires or is torn down.
C19_OneCommitPerSpin ==
  /\ [][~(SpinHandles' \subseteq SpinHandles) =>
          (SpinAccepted /\ StartSpin /\ Cardinality(SpinHandles') = 1)]_vars
  /\ [][(mounted' /\ ~(SpinHandles \subseteq SpinHandles')) =>
          (Appends /\ Tail(history') = history)]_vars
  /\ [][Appends =>
          /\ Tail(history') = history
          /\ \E t \in SpinTimeouts :
               t.left = 0 /\ SpinHandles' = SpinHandles \ {t.h}
          /\ intervals' = {}
          /\ ~isSpinning']_vars
  /\ (mounted /\ SpinTimeouts # {}) ~> (~mounted \/ SpinTimeouts = {})

\* A spin has been committed: its record is in history, its number is shown,
\* and neither its timeout nor its interval is left.
C19_Witness ==
  /\ mounted /\ ~showConfig /\ ~isSpinning
  /\ Len(history) >= 1 /\ currentNumber = Shown(history[1].number)
  /\ SpinTimeouts = {} /\ intervals = {}

\* The round at currentStepIndex requires 0 winners.
ZeroRoundCurrent ==
  /\ mounted /\ ~showConfig
  /\ currentStepIndex < Len(steps)
  /\ steps[currentStepIndex + 1].count = Typed(0)

\* C20 (Zero-count round), as claimed: while a round that requires 0 winners
\* is the current round no press of the spin button is accepted, and no
\* record of the game carries the id of such a round.  Violated by the
\* code.
C20_ZeroRound ==
  /\ [][ZeroRoundCurrent => SpinHandles' \subseteq SpinHandles]_vars
  /\ []((mounted /\ ~showConfig) =>
          \A i \in 1..Len(steps) :
            steps[i].count = Typed(0) => WinnersIn(history, steps[i].id) = 0)

\* C21 (Tick frame), as claimed: a tick of the spin animation sets the
\* displayed value to a member of the pool and leaves the pool, the history,
\* the round index and the phase as they are.  Violated by the code.
C21_TickFrame ==
  [][IntervalTick =>
       /\ UNCHANGED <<availableNumbers, history, currentStepIndex, isSpinning,
                      isTransitioning, showConfig>>
       /\ currentNumber'.tag = "num"
       /\ currentNumber'.n \in availableNumbers
    ]_vars

\* C22 (Winner independent of the tick), as claimed: whenever a commit is
\* due, whatever value the last tick has left on display, a commit selecting
\* n is possible for every number n of the pool; stated here for plans of
\* positive required counts.  Violated by the code.
C22_WinnerIndependent ==
  (mounted /\ PlanPositive /\ \E t \in SpinTimeouts : t.left = 0) =>
    \A n \in availableNumbers :
      ENABLED (CommitDraw /\ currentNumber' = Shown(n))

\* C23 (Append-only, newest first): every step leaves history as it is, or
\* is a commit that puts one new record at its head and keeps the earlier
\* records, in their order, behind it, or is a successful Initialize/Reset
\* that removes all records.
C23_AppendOnly ==
  [][\/ history' = history
     \/ /\ \E t \in SpinTimeouts : t.left = 0 /\ t \notin timeouts'
        /\ Len(history') = Len(history) + 1
        /\ Tail(history') = history
     \/ /\ Initialize \/ Reset
        /\ notice' # "InsufficientPool"
        /\ history' = <<>>
    ]_vars

\* Two commits have been made: the record of the second one, whose number
\* is on display, is at the head of history, the first one behind it.
C23_Witness ==
  /\ mounted /\ ~showConfig
  /\ Len(history) = 2
  /\ currentNumber = Shown(history[1].number)
  /\ history[1].number # history[2].number

\* The numbers of the records in history.
HistoryNumbers == {history[k].number : k \in 1..Len(history)}

\* C24 (No carry-over across reset), as claimed: in every play state the pool
\* and the numbers in history are disjoint and together are min..max, so
\* pool size plus history length is max - min + 1.  Violated by the code.
C24_NoCarryOver ==
  (mounted /\ ~showConfig) =>
    /\ availableNumbers \cap HistoryNumbers = {}
    /\ availableNumbers \cup HistoryNumbers = PoolRange
    /\ Cardinality(availableNumbers) + Len(history) = PoolSize

\* C25 (History grouped by round), as claimed: in every play state each
\* record's round is in the plan at a position not after currentStepIndex,
\* and from the newest record to the oldest the positions never increase.
\* Violated by the code.
C25_GroupedByRound ==
  (mounted /\ ~showConfig) =>
    /\ \A k \in 1..Len(history) :
         \E i \in 1..Len(steps) :
           steps[i].id = history[k].stepId /\ i - 1 <= currentStepIndex
    /\ \A k, l \in 1..Len(history) : \A i, j \in 1..Len(steps) :
         (/\ k < l
          /\ steps[i].id = history[k].stepId
          /\ steps[j].id = history[l].stepId) => i >= j

\* initializeNumbers has run at least once: a pool or a record exists.
Initialized == availableNumbers # {} \/ history # <<>>

\* C26 (Display matches the ledger): once the game is initialized, in every
\* state that is not spinning the displayed value is the "?" placeholder if
\* history is empty and the number of the newest record otherwise.
C26_DisplayMatchesLedger ==
  (Initialized /\ ~isSpinning) =>
    IF history = <<>>
    THEN currentNumber.tag = "?"
    ELSE currentNumber.tag = "num" /\ currentNumber.n = history[1].number

\* A Reset during the round transition: not spinning, the history empty
\* again and the placeholder on display, the transition still pending.
C26_Witness ==
  /\ mounted /\ ~showConfig /\ ~isSpinning
  /\ history = <<>> /\ currentNumber.tag = "?"
  /\ \E t \in TransitionTimeouts : t.old

====
